---- MODULE Spec2Model ----
(***************************************************************************)
(* Model of src/src/agents/Data_collection_agent.py:                       *)
(*   CompanyDataCollector  (Search, News, Website, Keywords, Competitors), *)
(*   SocialMediaExtractor  (Twitter, Bluesky, Mastodon, Threads).          *)
(* Strings are sequences of one-character strings, so that lower(),        *)
(* len(), "in", split() and the f-string formatting are computed.          *)
(***************************************************************************)
EXTENDS Integers, Sequences, FiniteSets, TLC

VARIABLES
    pc,                \* position of collect_all_company_data
    error,             \* the step whose exception left collect_all_company_data, or "none"
    trace,             \* the steps invoked so far, in order
    status,            \* the values of the `results` dict evaluated so far
    official_website,  \* company_data["basic_info"]["official_website"], NoLink when the key is absent
    search_results,    \* company_data["search_results"] (empty also when the key is absent)
    news,              \* company_data["news"]
    website_content,   \* company_data["website_content"]: a function on a subset of Sections
    industry_keywords, \* company_data["industry_keywords"]
    competitors,       \* company_data["competitors"]
    calls,             \* the fetches issued by the action that ran last, with what each returned
    saved,             \* TRUE once json.dump wrote company_data
    spc,               \* position of collect_all_social_data
    serror,            \* the extractor whose exception left collect_all_social_data, or "none"
    handles,           \* the handles collect_all_social_data was called with
    sstatus,           \* the `results` dict of collect_all_social_data
    social_data,       \* self.social_data: posts per platform, and the twitter_profile key
    scalls,            \* the extractors invoked so far, in order, with their arguments
    ssaved             \* how many times json.dump wrote social_data

cvars == <<pc, error, trace, status, official_website, search_results, news,
           website_content, industry_keywords, competitors, calls, saved>>
svars == <<spc, serror, handles, sstatus, social_data, scalls, ssaved>>
vars == <<pc, error, trace, status, official_website, search_results, news,
          website_content, industry_keywords, competitors, calls, saved,
          spc, serror, handles, sstatus, social_data, scalls, ssaved>>

-----------------------------------------------------------------------------
(* Bounds of the model.                                                    *)
MaxHits == 2        \* search hits in one Google response
MaxArticles == 1    \* articles in one News API response
MaxItems == 1       \* hits in the competitors search response
MaxTweets == 1      \* tweets in one timeline
MaxNewsItems == 2   \* stored news items the Keywords step is applied to

-----------------------------------------------------------------------------
(* Strings.                                                                *)
UpperChars == <<"A","B","C","D","E","F","G","H","I","J","K","L","M",
                "N","O","P","Q","R","S","T","U","V","W","X","Y","Z">>
LowerChars == <<"a","b","c","d","e","f","g","h","i","j","k","l","m",
                "n","o","p","q","r","s","t","u","v","w","x","y","z">>

\* str.lower() on one character
LowerChar(c) ==
    IF \E i \in 1..Len(UpperChars) : UpperChars[i] = c
    THEN LowerChars[CHOOSE i \in 1..Len(UpperChars) : UpperChars[i] = c]
    ELSE c

\* str.lower()
Lower(s) == [i \in 1..Len(s) |-> LowerChar(s[i])]

\* Python's `a in b` on strings
IsSubstring(a, b) ==
    \E i \in 0..(Len(b) - Len(a)) : SubSeq(b, i + 1, i + Len(a)) = a

RECURSIVE Join(_, _)
\* sep.join(parts)
Join(sep, parts) ==
    IF parts = <<>> THEN <<>>
    ELSE IF Len(parts) = 1 THEN Head(parts)
    ELSE Head(parts) \o sep \o Join(sep, Tail(parts))

RECURSIVE SplitFrom(_, _, _)
SplitFrom(s, sep, cur) ==
    IF s = <<>> THEN <<cur>>
    ELSE IF Head(s) = sep THEN <<cur>> \o SplitFrom(Tail(s), sep, <<>>)
    ELSE SplitFrom(Tail(s), sep, Append(cur, Head(s)))

\* str.split(sep) for a one-character separator
Split(s, sep) == SplitFrom(s, sep, <<>>)

Min(a, b) == IF a < b THEN a ELSE b

\* seq[:n]
Take(seq, n) == SubSeq(seq, 1, Min(n, Len(seq)))

-----------------------------------------------------------------------------
(* Text values.  A value is None or a string; a string is its words, one   *)
(* space between two words, followed by `pad` further whitespace.          *)
None == [none |-> TRUE, words |-> <<>>, pad |-> 0]
Text(ws, p) == [none |-> FALSE, words |-> ws, pad |-> p]

RECURSIVE SumLen(_)
SumLen(ws) == IF ws = <<>> THEN 0 ELSE Len(Head(ws)) + SumLen(Tail(ws))

\* the characters the words and the single spaces between them take
WordsLen(ws) == IF ws = <<>> THEN 0 ELSE SumLen(ws) + Len(ws) - 1

\* len(text)
TextLen(t) == WordsLen(t.words) + t.pad

\* Python truthiness of an optional string: None and "" are falsy
Truthy(v) == ~v.none /\ TextLen(v) > 0

-----------------------------------------------------------------------------
(* The words of the documents the Source Fetcher serves.                   *)
W_Bank == <<"B","a","n","k">>
W_bank == <<"b","a","n","k">>
W_The == <<"T","h","e">>
W_for == <<"f","o","r">>
W_loans == <<"l","o","a","n","s">>
W_cards == <<"c","a","r","d","s">>
W_funds == <<"f","u","n","d","s">>
W_growing == <<"g","r","o","w","i","n","g">>
W_launched == <<"l","a","u","n","c","h","e","d">>
W_portal == <<"p","o","r","t","a","l">>
W_Top == <<"T","o","p">>
W_Competitors == <<"C","o","m","p","e","t","i","t","o","r","s">>
W_competitors == <<"c","o","m","p","e","t","i","t","o","r","s">>
W_rivals == <<"r","i","v","a","l","s">>
W_None == <<"N","o","n","e">>
W_filed == <<"f","i","l","e","d">>

\* the constructor's company_name
company_name == <<"A","c","m","e">>

-----------------------------------------------------------------------------
(* CompanyDataCollector                                                    *)
NoLink == 0

\* f"{self.company_name} company information"
SearchQuery ==
    company_name \o <<" ","c","o","m","p","a","n","y"," ",
                      "i","n","f","o","r","m","a","t","i","o","n">>

\* item.get('displayLink', '') of the hits a response may carry
DisplayLinks ==
    { <<"A","c","m","e",".","i","o">>,     \* the name is in the domain
      <<"A","C">>,                        \* the domain is in the name
      <<"n","e","w","s",".","i","o">>,     \* no overlap
      <<>> }                              \* no displayLink: the default ''

\* the i-th hit of a response: its link names its place in the response
Hit(i, dl) ==
    [displayLink |-> dl, link |-> i,
     title |-> Text(<<W_portal>>, 0), snippet |-> Text(<<W_Bank, W_portal>>, 0)]

HitLists ==
    UNION { { [i \in 1..n |-> Hit(i, f[i])] : f \in [1..n -> DisplayLinks] }
            : n \in 0..MaxHits }

\* what requests.get and response.json() give the Search step
SearchResponses ==
    { [kind |-> k, items |-> <<>>] : k \in {"raise", "non200", "noitems"} }
    \cup { [kind |-> "items", items |-> h] : h \in HitLists }

\* the condition of line 63
DomainMatches(dl) ==
    \/ IsSubstring(Lower(dl), Lower(company_name))
    \/ IsSubstring(Lower(company_name), Lower(dl))

RECURSIVE AdoptWebsite(_, _, _)
\* the loop of lines 62-64 from hit i on, cur being the value stored so far
AdoptWebsite(items, i, cur) ==
    IF i > Len(items) THEN cur
    ELSE AdoptWebsite(items, i + 1,
                      IF DomainMatches(items[i].displayLink)
                      THEN items[i].link ELSE cur)

\* the dict appended at lines 67-71
StoredHit(item) ==
    [title |-> item.title, link |-> item.link, snippet |-> item.snippet]

Call(op, arg, out) == [op |-> op, arg |-> arg, out |-> out]

Raise(step) ==
    /\ pc' = "raised"
    /\ error' = step

Return_RetryOnFailure(step, value, next) ==
    /\ pc' = IF value THEN next ELSE pc
    /\ error' = error
    /\ status' = (step :> value) @@ status

Return(step, value, next) ==
    /\ pc' = next
    /\ error' = error
    /\ status' = (step :> value) @@ status

fetch_google_search_results ==
    /\ pc = "search"
    /\ trace' = Append(trace, "google_search")
    /\ \E r \in SearchResponses :
        /\ calls' = <<Call("webSearch", SearchQuery, r)>>
        /\ CASE r.kind = "raise" ->
                  /\ Raise("google_search")
                  /\ UNCHANGED <<status, official_website, search_results>>
             [] r.kind = "items" ->
                  /\ official_website' = AdoptWebsite(r.items, 1, official_website)
                  /\ search_results' = [i \in 1..Len(r.items) |-> StoredHit(r.items[i])]
                  /\ Return("google_search", TRUE, "news")
             [] OTHER ->
                  /\ Return("google_search", FALSE, "news")
                  /\ UNCHANGED <<official_website, search_results>>
    /\ UNCHANGED <<news, website_content, industry_keywords, competitors, saved>>
    /\ UNCHANGED svars

-----------------------------------------------------------------------------
\* the articles a News API response may carry
Articles ==
    { [content |-> None, description |-> Text(<<W_Bank, W_growing>>, 0)],
      [content |-> Text(<<W_launched, W_loans>>, 0), description |-> None] }

ArticleLists == UNION { [1..n -> Articles] : n \in 0..MaxArticles }

NewsResponses ==
    { [kind |-> k, articles |-> <<>>] : k \in {"raise", "non200", "notok"} }
    \cup { [kind |-> "ok", articles |-> a] : a \in ArticleLists }

\* articles[:20]
NewsCap == 20

fetch_news_articles ==
    /\ pc = "news"
    /\ trace' = Append(trace, "news")
    /\ \E r \in NewsResponses :
        /\ calls' = <<Call("newsSearch", company_name, r)>>
        /\ CASE r.kind = "raise" ->
                  /\ Raise("news")
                  /\ UNCHANGED <<status, news>>
             [] r.kind = "ok" ->
                  /\ news' = news \o Take(r.articles, NewsCap)
                  /\ Return("news", TRUE, "website")
             [] OTHER ->
                  /\ Return("news", FALSE, "website")
                  /\ UNCHANGED news
    /\ UNCHANGED <<official_website, search_results, website_content,
                   industry_keywords, competitors, saved>>
    /\ UNCHANGED svars

-----------------------------------------------------------------------------
(* scrape_company_website                                                  *)
AboutPaths == <<"/about", "/about-us", "/company", "/our-company">>
ProductPaths == <<"/products", "/services", "/brands">>

\* f"{website_url.rstrip('/')}{path}"; the main page has the path ""
Url(base, path) == [base |-> base, path |-> path]

\* the threshold of lines 155 and 178
QualityBar == 100

PageWords(section) ==
    CASE section = "main" -> <<W_The, W_Bank, W_bank>>
      [] section = "about" -> <<W_loans, W_Bank>>
      [] section = "products" -> <<W_cards, W_loans, W_for, W_funds>>

\* a page of `section` whose article.text has n characters
PageText(section, n) ==
    Text(PageWords(section), n - WordsLen(PageWords(section)))

\* the lengths of the candidate pages, and that of the main page
TextLens == {QualityBar - 1, QualityBar, QualityBar + 1}
MainLens == {QualityBar - 1}

\* what Article.download() and Article.parse() give for one URL
DocResponses(section, lens) ==
    { [kind |-> "raise", text |-> None] }
    \cup { [kind |-> "doc", text |-> PageText(section, n)] : n \in lens }

QualityCheck_AtLeast(text) == TextLen(text) >= QualityBar

QualityCheck_Missing(text) == TRUE

\* len(about_article.text) > 100, len(product_article.text) > 100
QualityCheck(text) == TextLen(text) > QualityBar

\* the dict stored at lines 156-159 and 179-182; the title is that of the page at url
WebSection(url, text) == [title |-> url, text |-> text]

RECURSIVE TryCandidates_NoBreak(_, _, _, _)
TryCandidates_NoBreak(base, paths, outs, i) ==
    IF i > Len(paths) THEN [log |-> <<>>, stored |-> <<>>]
    ELSE LET url == Url(base, paths[i])
             c == Call("fetchDocument", url, outs[i])
             rest == TryCandidates_NoBreak(base, paths, outs, i + 1)
         IN  [log |-> <<c>> \o rest.log,
              stored |-> IF rest.stored # <<>> THEN rest.stored
                         ELSE IF outs[i].kind = "doc" /\ QualityCheck(outs[i].text)
                         THEN <<WebSection(url, outs[i].text)>>
                         ELSE <<>>]

RECURSIVE TryCandidates_RaiseStops(_, _, _, _)
TryCandidates_RaiseStops(base, paths, outs, i) ==
    IF i > Len(paths) THEN [log |-> <<>>, stored |-> <<>>]
    ELSE LET url == Url(base, paths[i])
             c == Call("fetchDocument", url, outs[i])
         IN  IF outs[i].kind = "raise"
             THEN [log |-> <<c>>, stored |-> <<>>]
             ELSE IF QualityCheck(outs[i].text)
             THEN [log |-> <<c>>, stored |-> <<WebSection(url, outs[i].text)>>]
             ELSE LET rest == TryCandidates_RaiseStops(base, paths, outs, i + 1)
                  IN  [log |-> <<c>> \o rest.log, stored |-> rest.stored]

RECURSIVE TryCandidates(_, _, _, _)
\* the loops of lines 149-162 and 172-185 from candidate i on: the fetches made
\* and the section stored, if any
TryCandidates(base, paths, outs, i) ==
    IF i > Len(paths) THEN [log |-> <<>>, stored |-> <<>>]
    ELSE LET url == Url(base, paths[i])
             c == Call("fetchDocument", url, outs[i])
         IN  IF outs[i].kind = "doc" /\ QualityCheck(outs[i].text)
             THEN [log |-> <<c>>, stored |-> <<WebSection(url, outs[i].text)>>]
             ELSE LET rest == TryCandidates(base, paths, outs, i + 1)
                  IN  [log |-> <<c>> \o rest.log, stored |-> rest.stored]

\* website_content with `section` set when the resolution stored one
WithSection_Replacing(content, section, stored) ==
    IF stored = <<>> THEN content ELSE (section :> stored[1])

\* self.company_data["website_content"][section] = {...} (lines 156-160, 179-183)
WithSection(content, section, stored) ==
    IF stored = <<>> THEN content ELSE (section :> stored[1]) @@ content

\* lines 120-139: the guard and the main page, which has no quality gate
scrape_company_website ==
    /\ pc = "website"
    /\ trace' = Append(trace, "website")
    /\ IF official_website = NoLink
       THEN /\ calls' = <<>>
            /\ Return("website", FALSE, "keywords")
            /\ UNCHANGED website_content
       ELSE \E m \in DocResponses("main", MainLens) :
            LET main == Call("fetchDocument", Url(official_website, ""), m) IN
            /\ calls' = <<main>>
            /\ IF m.kind = "raise"
               THEN /\ Raise("website")
                    /\ UNCHANGED <<status, website_content>>
               ELSE /\ website_content' =
                        ("main" :> WebSection(Url(official_website, ""), m.text))
                            @@ website_content
                    /\ pc' = "website_about"
                    /\ UNCHANGED <<error, status>>
    /\ UNCHANGED <<official_website, search_results, news, industry_keywords,
                   competitors, saved>>
    /\ UNCHANGED svars

\* lines 141-162: the about-page candidates
scrape_about_page ==
    /\ pc = "website_about"
    /\ \E a \in [1..Len(AboutPaths) -> DocResponses("about", TextLens)] :
        LET about == TryCandidates(official_website, AboutPaths, a, 1)
        IN  /\ website_content' = WithSection(website_content, "about", about.stored)
            /\ calls' = about.log
    /\ pc' = "website_products"
    /\ UNCHANGED <<error, trace, status, official_website, search_results, news,
                   industry_keywords, competitors, saved>>
    /\ UNCHANGED svars

\* lines 164-188: the products-page candidates, and the step's return
scrape_products_page ==
    /\ pc = "website_products"
    /\ \E p \in [1..Len(ProductPaths) -> DocResponses("products", TextLens)] :
        LET products == TryCandidates(official_website, ProductPaths, p, 1)
        IN  /\ website_content' = WithSection(website_content, "products", products.stored)
            /\ calls' = products.log
    /\ Return("website", TRUE, "keywords")
    /\ UNCHANGED <<trace, official_website, search_results, news,
                   industry_keywords, competitors, saved>>
    /\ UNCHANGED svars

-----------------------------------------------------------------------------
(* extract_industry_keywords                                               *)
\* the order in which scrape_company_website inserts the keys
SectionOrder == <<"main", "about", "products">>

RECURSIVE SectionTexts(_, _)
\* lines 199-201: the text of every stored section, in dict order
SectionTexts(content, i) ==
    IF i > Len(SectionOrder) THEN <<>>
    ELSE (IF SectionOrder[i] \in DOMAIN content
          THEN <<content[SectionOrder[i]].text>> ELSE <<>>)
         \o SectionTexts(content, i + 1)

\* str(value): the text itself, and "None" for None
PyStr(v) == IF v.none THEN Text(<<W_None>>, 0) ELSE v

RECURSIVE NewsTexts_Stringified(_)
NewsTexts_Stringified(articles) ==
    IF articles = <<>> THEN <<>>
    ELSE <<PyStr(Head(articles).content), PyStr(Head(articles).description)>>
         \o NewsTexts_Stringified(Tail(articles))

RECURSIVE NewsTexts(_)
\* lines 204-210: content and description of every article, when truthy
NewsTexts(articles) ==
    IF articles = <<>> THEN <<>>
    ELSE (IF Truthy(Head(articles).content) THEN <<Head(articles).content>> ELSE <<>>)
         \o (IF Truthy(Head(articles).description)
             THEN <<Head(articles).description>> ELSE <<>>)
         \o NewsTexts(Tail(articles))

\* lines 196-210
AllText(content, articles) == SectionTexts(content, 1) \o NewsTexts(articles)

RECURSIVE NotNone(_)
\* line 214: [str(text) for text in all_text if text is not None]
NotNone(texts) ==
    IF texts = <<>> THEN <<>>
    ELSE (IF Head(texts).none THEN <<>> ELSE <<PyStr(Head(texts))>>)
         \o NotNone(Tail(texts))

LowerWords(ws) == [i \in 1..Len(ws) |-> Lower(ws[i])]

RECURSIVE SplitWords(_)
\* lines 215-217: " ".join(all_text).lower().split()
SplitWords(texts) ==
    IF texts = <<>> THEN <<>>
    ELSE LowerWords(Head(texts).words) \o SplitWords(Tail(texts))

\* line 220
stopwords ==
    { <<"t","h","e">>, <<"a","n","d">>, <<"o","r">>, <<"i","n">>, <<"o","n">>,
      <<"a","t">>, <<"t","o">>, <<"a">>, <<"a","n">>, <<"o","f">>,
      <<"f","o","r">>, <<"w","i","t","h">>, <<"b","y">> }

\* len(word) > 3
MinWordLen == 3

\* line 222
Survives(word) == word \notin stopwords /\ Len(word) > MinWordLen

Surviving(ws) == SelectSeq(ws, Survives)

\* the keys of word_freq in insertion order: each word where it is first seen
Keys(ws, seen) ==
    LET FirstSeen(i) == ws[i] \notin seen /\ \A j \in 1..(i - 1) : ws[j] # ws[i]
        at == SelectSeq([i \in 1..Len(ws) |-> i], FirstSeen)
    IN  [k \in 1..Len(at) |-> ws[at[k]]]

\* word_freq[word]
Freq(word, ws) == Cardinality({ i \in 1..Len(ws) : ws[i] = word })

\* the dict word_freq built at lines 218-223
WordFreq(ws) == [w \in { ws[i] : i \in 1..Len(ws) } |-> Freq(w, ws)]

SortByCount_Unsorted(keys, freq) == keys

\* sorted(word_freq.items(), key=lambda x: x[1], reverse=True): stable, so a
\* key comes after the more frequent keys and after the equally frequent keys
\* inserted before it
SortByCount(keys, freq) ==
    LET Sorted(k, f) ==
            LET place == [i \in 1..Len(k) |->
                            1 + Cardinality({ j \in 1..Len(k) : f[k[j]] > f[k[i]] })
                              + Cardinality({ j \in 1..(i - 1) : f[k[j]] = f[k[i]] })]
            IN  [p \in 1..Len(k) |-> k[CHOOSE i \in 1..Len(k) : place[i] = p]]
    IN  \* keys and freq are evaluated once
        CHOOSE s \in { Sorted(k, f) : k \in {keys}, f \in {freq} } : TRUE

\* line 226 without the slice
SortedByFreq(keys, ws) == SortByCount(keys, WordFreq(ws))

\* [:50]
TopN == 50

\* line 217-222: the words that are counted
CountedWords(content, articles) ==
    Surviving(SplitWords(NotNone(AllText(content, articles))))

\* lines 214-227
IndustryKeywords(content, articles) ==
    LET ws == CountedWords(content, articles)
    IN  Take(SortedByFreq(Keys(ws, {}), ws), TopN)

extract_industry_keywords ==
    /\ pc = "keywords"
    /\ trace' = Append(trace, "keywords")
    /\ calls' = <<>>
    /\ industry_keywords' = IndustryKeywords(website_content, news)
    /\ Return("keywords", TRUE, "competitors")
    /\ UNCHANGED <<official_website, search_results, news, website_content,
                   competitors, saved>>
    /\ UNCHANGED svars

-----------------------------------------------------------------------------
(* find_competitors                                                        *)
\* repr(word) of a word without quotes or backslashes
Repr(word) == <<"'">> \o word \o <<"'">>

RECURSIVE Reprs(_)
Reprs(ws) == IF ws = <<>> THEN <<>> ELSE <<Repr(Head(ws))>> \o Reprs(Tail(ws))

\* str(list), as the f-string of line 246 formats the slice
ListStr(ws) == <<"[">> \o Join(<<",", " ">>, Reprs(ws)) \o <<"]">>

\* industry_keywords[:3]
QueryKeywords == 3

S_competitors_in == <<" ","c","o","m","p","e","t","i","t","o","r","s"," ","i","n"," ">>

CompetitorsQuery_NoSlice(keywords) ==
    company_name \o S_competitors_in \o ListStr(keywords)

\* line 246: f"{self.company_name} competitors in {self.company_data['industry_keywords'][:3]}"
CompetitorsQuery(keywords) ==
    company_name \o S_competitors_in \o ListStr(Take(keywords, QueryKeywords))

RECURSIVE Spaces(_)
Spaces(n) == IF n <= 0 THEN <<>> ELSE <<" ">> \o Spaces(n - 1)

\* the characters of a string value
StrOf(t) == Join(<<" ">>, t.words) \o Spaces(t.pad)

\* the hits the competitors search may return
CompetitorItems ==
    { [title |-> Text(<<W_Top, W_Competitors>>, 0), snippet |-> Text(<<W_rivals>>, 0)],
      [title |-> Text(<<W_rivals>>, 0), snippet |-> Text(<<W_Bank, W_competitors>>, 0)],
      [title |-> Text(<<W_rivals>>, 0), snippet |-> Text(<<W_Bank>>, 0)] }

CompetitorItemLists ==
    UNION { { [i \in 1..n |-> [title |-> f[i].title, snippet |-> f[i].snippet, link |-> i]]
              : f \in [1..n -> CompetitorItems] } : n \in 0..MaxItems }

CompetitorResponses ==
    { [kind |-> k, items |-> <<>>] : k \in {"raise", "non200", "noitems"} }
    \cup { [kind |-> "items", items |-> h] : h \in CompetitorItemLists }

\* line 264
MentionsCompetitors(item) ==
    \/ IsSubstring(W_competitors, Lower(StrOf(item.snippet)))
    \/ IsSubstring(W_competitors, Lower(StrOf(item.title)))

RECURSIVE CompetitorMentions(_)
\* lines 257-269
CompetitorMentions(items) ==
    IF items = <<>> THEN <<>>
    ELSE (IF MentionsCompetitors(Head(items))
          THEN <<[source |-> Head(items).link, title |-> Head(items).title,
                  snippet |-> Head(items).snippet]>>
          ELSE <<>>)
         \o CompetitorMentions(Tail(items))

find_competitors ==
    /\ pc = "competitors"
    /\ trace' = Append(trace, "competitors")
    /\ \E r \in CompetitorResponses :
        /\ calls' = <<Call("webSearch", CompetitorsQuery(industry_keywords), r)>>
        /\ IF r.kind = "raise"
           THEN /\ Raise("competitors")
                /\ UNCHANGED <<status, competitors>>
           ELSE /\ competitors' = CompetitorMentions(r.items)
                /\ Return("competitors", TRUE, "save")
    /\ UNCHANGED <<official_website, search_results, news, website_content,
                   industry_keywords, saved>>
    /\ UNCHANGED svars

\* lines 288-301: the record is written and the envelope returned
save_company_data ==
    /\ pc = "save"
    /\ saved' = TRUE
    /\ pc' = "done"
    /\ UNCHANGED <<error, trace, status, official_website, search_results, news,
                   website_content, industry_keywords, competitors, calls>>
    /\ UNCHANGED svars

-----------------------------------------------------------------------------
EmptyMap == [x \in {} |-> TRUE]

\* CompanyDataCollector.__init__ (lines 20-37): collect_all_company_data is about to run
InitCompany ==
    /\ pc = "search"
    /\ error = "none"
    /\ trace = <<>>
    /\ status = EmptyMap
    /\ official_website = NoLink
    /\ search_results = <<>>
    /\ news = <<>>
    /\ website_content = EmptyMap
    /\ industry_keywords = <<>>
    /\ competitors = <<>>
    /\ calls = <<>>
    /\ saved = FALSE

-----------------------------------------------------------------------------
(* SocialMediaExtractor                                                    *)
Platforms == <<"twitter", "bluesky", "mastodon", "threads">>

\* a handle argument: None (the default, and social_handles.get of a missing key) or a string
NoHandle == [none |-> TRUE, s |-> <<>>]
Handle(s) == [none |-> FALSE, s |-> s]

\* `if twitter_handle:` and the like: None and "" are falsy
HandleGiven(h) == ~h.none /\ Len(h.s) > 0

HandleChoices ==
    [twitter : {NoHandle, Handle(<<>>), Handle(<<"h","u","l">>)},
     bluesky : {NoHandle, Handle(<<>>), Handle(<<"h","u","l">>)},
     mastodon : {NoHandle, Handle(<<>>), Handle(<<"h","u","l">>),
                 Handle(<<"@","h","u","l","@","m",".","s">>)},
     threads : {NoHandle, Handle(<<>>), Handle(<<"h","u","l">>)}]

\* the default of extract_mastodon_data's instance parameter
DefaultInstance == <<"m","a","s","t","o","d","o","n",".","s","o","c","i","a","l">>

\* range(10): the placeholder posts of lines 414-422, 437-446 and 461-469
DummyPosts == 10

InitialResults_Optimistic ==
    [twitter |-> TRUE, bluesky |-> TRUE, mastodon |-> TRUE, threads |-> TRUE]

\* lines 479-484
InitialResults ==
    [twitter |-> FALSE, bluesky |-> FALSE, mastodon |-> FALSE, threads |-> FALSE]

\* the value every extractor's except block returns (lines 403, 427, 451, 474)
FailedResult == FALSE

\* line 402: logger.info is a bound method without an attribute `error`, so the
\* except block itself raises AttributeError before it returns
LoggingRaises == TRUE

\* what tweepy gives extract_twitter_data
TwitterResponses ==
    { [kind |-> k, tweets |-> 0] : k \in {"raise_get_user", "raise_user_timeline"} }
    \cup { [kind |-> "ok", tweets |-> n] : n \in 0..MaxTweets }

SCall(platform, args) == [platform |-> platform, args |-> args]

\* collect_all_social_data is called (lines 476-484)
collect_all_social_data ==
    /\ spc = "start"
    /\ \E h \in HandleChoices : handles' = h
    /\ sstatus' = InitialResults
    /\ spc' = "twitter"
    /\ UNCHANGED <<serror, social_data, scalls, ssaved>>
    /\ UNCHANGED cvars

\* the except block of an extractor (lines 401-403)
ExtractorFailed(platform, next) ==
    IF LoggingRaises
    THEN /\ spc' = "raised"
         /\ serror' = platform
         /\ UNCHANGED sstatus
    ELSE /\ spc' = next
         /\ sstatus' = [sstatus EXCEPT ![platform] = FailedResult]
         /\ UNCHANGED serror

ExtractorDone(platform, next) ==
    /\ spc' = next
    /\ sstatus' = [sstatus EXCEPT ![platform] = TRUE]
    /\ UNCHANGED serror

Skip(next) ==
    /\ spc' = next
    /\ UNCHANGED <<serror, sstatus, social_data, scalls>>

\* lines 486-487 and extract_twitter_data
extract_twitter_data ==
    /\ spc = "twitter"
    /\ IF HandleGiven(handles.twitter)
       THEN /\ scalls' = Append(scalls, SCall("twitter", <<handles.twitter.s>>))
            /\ \E r \in TwitterResponses :
                CASE r.kind = "raise_get_user" ->
                       /\ UNCHANGED social_data
                       /\ ExtractorFailed("twitter", "bluesky")
                  [] r.kind = "raise_user_timeline" ->
                       /\ social_data' = [social_data EXCEPT !.twitter_profile = TRUE]
                       /\ ExtractorFailed("twitter", "bluesky")
                  [] OTHER ->
                       /\ social_data' = [social_data EXCEPT !.twitter_profile = TRUE,
                                                             !.twitter = @ + r.tweets]
                       /\ ExtractorDone("twitter", "bluesky")
       ELSE Skip("bluesky")
    /\ UNCHANGED <<handles, ssaved>>
    /\ UNCHANGED cvars

\* lines 489-490 and extract_bluesky_data
extract_bluesky_data ==
    /\ spc = "bluesky"
    /\ IF HandleGiven(handles.bluesky)
       THEN /\ scalls' = Append(scalls, SCall("bluesky", <<handles.bluesky.s>>))
            /\ social_data' = [social_data EXCEPT !.bluesky = DummyPosts]
            /\ ExtractorDone("bluesky", "mastodon")
       ELSE Skip("mastodon")
    /\ UNCHANGED <<handles, ssaved>>
    /\ UNCHANGED cvars

\* lines 493-499: the arguments extract_mastodon_data is called with
MastodonArgs(handle) ==
    LET parts == Split(handle, "@")
    IN  IF Len(parts) > 2 THEN <<parts[2], parts[3]>> ELSE <<handle, DefaultInstance>>

\* lines 492-499 and extract_mastodon_data
extract_mastodon_data ==
    /\ spc = "mastodon"
    /\ IF HandleGiven(handles.mastodon)
       THEN /\ scalls' = Append(scalls, SCall("mastodon", MastodonArgs(handles.mastodon.s)))
            /\ social_data' = [social_data EXCEPT !.mastodon = DummyPosts]
            /\ ExtractorDone("mastodon", "threads")
       ELSE Skip("threads")
    /\ UNCHANGED <<handles, ssaved>>
    /\ UNCHANGED cvars

\* lines 501-502 and extract_threads_data
extract_threads_data ==
    /\ spc = "threads"
    /\ IF HandleGiven(handles.threads)
       THEN /\ scalls' = Append(scalls, SCall("threads", <<handles.threads.s>>))
            /\ social_data' = [social_data EXCEPT !.threads = DummyPosts]
            /\ ExtractorDone("threads", "save")
       ELSE Skip("save")
    /\ UNCHANGED <<handles, ssaved>>
    /\ UNCHANGED cvars

\* lines 504-518: the social record is written and the envelope returned
save_social_data ==
    /\ spc = "save"
    /\ ssaved' = ssaved + 1
    /\ spc' = "done"
    /\ UNCHANGED <<serror, handles, sstatus, social_data, scalls>>
    /\ UNCHANGED cvars

\* SocialMediaExtractor.__init__ (lines 308-325)
InitSocial ==
    /\ spc = "start"
    /\ serror = "none"
    /\ handles = [twitter |-> NoHandle, bluesky |-> NoHandle,
                  mastodon |-> NoHandle, threads |-> NoHandle]
    /\ sstatus = EmptyMap
    /\ social_data = [twitter |-> 0, bluesky |-> 0, mastodon |-> 0, threads |-> 0,
                      twitter_profile |-> FALSE]
    /\ scalls = <<>>
    /\ ssaved = 0

-----------------------------------------------------------------------------
Init == InitCompany /\ InitSocial

\* collect_all_company_data (lines 277-301)
Next ==
    \/ fetch_google_search_results
    \/ fetch_news_articles
    \/ scrape_company_website
    \/ scrape_about_page
    \/ scrape_products_page
    \/ extract_industry_keywords
    \/ find_competitors
    \/ save_company_data

Spec == Init /\ [][Next]_vars

\* collect_all_social_data (lines 476-518)
NextSocial ==
    \/ collect_all_social_data
    \/ extract_twitter_data
    \/ extract_bluesky_data
    \/ extract_mastodon_data
    \/ extract_threads_data
    \/ save_social_data

SpecSocial == Init /\ [][NextSocial]_vars

-----------------------------------------------------------------------------
(* extract_industry_keywords applied to stored news of every shape.        *)
Digits == <<"0","1","2","3","4","5","6","7","8","9">>

\* the i-th of a family of distinct words that survive the filters
Tok(i) == <<"t","o","k", Digits[(i \div 10) + 1], Digits[(i % 10) + 1]>>

\* a text of the words Tok(a) .. Tok(b)
TokText(a, b) == Text([i \in 1..(b - a + 1) |-> Tok(a + i - 1)], 0)

\* article.get('content', '') and article.get('description', ''): null, empty or a text
NullableValues ==
    { None, Text(<<>>, 0), Text(<<W_Bank, W_growing>>, 0),
      Text(<<W_None, W_filed, W_Bank>>, 0) }

KeywordArticles == [content : NullableValues, description : NullableValues]

\* texts with as many distinct words as the slice keeps, and one more
LongTexts ==
    { TokText(1, TopN), TokText(TopN + 1, TopN + 1),
      TokText(1, TopN + 1), TokText(2, TopN + 1) }

\* the values company_data["news"] may hold when the Keywords step starts
StoredNews ==
    UNION { [1..n -> KeywordArticles] : n \in 0..MaxNewsItems }
    \cup { << [content |-> a, description |-> None],
              [content |-> b, description |-> None] >> : a, b \in LongTexts }

\* the Keywords step is about to run: Search gave no website, News stored
\* its articles, Website returned False (lines 281-283)
InitKeywords ==
    /\ pc = "keywords"
    /\ error = "none"
    /\ trace = <<"google_search", "news", "website">>
    /\ status = [google_search |-> FALSE, news |-> TRUE, website |-> FALSE]
    /\ official_website = NoLink
    /\ search_results = <<>>
    /\ news \in StoredNews
    /\ website_content = EmptyMap
    /\ industry_keywords = <<>>
    /\ competitors = <<>>
    /\ calls = <<>>
    /\ saved = FALSE
    /\ InitSocial

NextKeywords == extract_industry_keywords

SpecKeywords == InitKeywords /\ [][NextKeywords]_vars

-----------------------------------------------------------------------------
(* Properties.                                                             *)
Range(seq) == { seq[i] : i \in 1..Len(seq) }
Returned(step) == step \in DOMAIN status
Site == official_website

\* candidate i of the list the log belongs to was fetched and met the code's bar
Passed(log, i) == log[i].out.kind = "doc" /\ QualityCheck(log[i].out.text)

\* the log of one resolution over `paths` and the section it left in the record
FirstMatchWins(section, paths, log) ==
    /\ Len(log) <= Len(paths)
    /\ \A i \in 1..Len(log) : log[i].arg = Url(Site, paths[i])
    /\ \A i \in 1..(Len(log) - 1) : ~Passed(log, i)
    /\ IF log # <<>> /\ Passed(log, Len(log))
       THEN /\ section \in DOMAIN website_content
            /\ website_content[section] =
                   WebSection(Url(Site, paths[Len(log)]), log[Len(log)].out.text)
       ELSE /\ Len(log) = Len(paths)
            /\ section \notin DOMAIN website_content

AboutResolved == pc = "website_products"
ProductsResolved == pc = "keywords" /\ Returned("website") /\ status["website"]

\* C1 (as claimed): when the fetch of the News step fails, by a non-success
\* response or by an exception, the run still invokes Website, Keywords and
\* Competitors and records the News result as false.
C1_NewsFailureDoesNotHalt ==
    ( /\ pc = "done" \/ (pc = "raised" /\ error = "news")
      /\ error = "news" \/ (Returned("news") /\ ~status["news"]) )
    => /\ {"website", "keywords", "competitors"} \subseteq Range(trace)
       /\ Returned("news") /\ status["news"] = FALSE

\* C2: each resolution tries its candidates in list order, stops at the first
\* one that meets the quality bar and stores that one; none is stored when an
\* earlier one passes and none is fetched after the first passing one.
C2_FirstPassingCandidateWins ==
    /\ AboutResolved => FirstMatchWins("about", AboutPaths, calls)
    /\ ProductsResolved => FirstMatchWins("products", ProductPaths, calls)

C2_Witness ==
    /\ ProductsResolved
    /\ Len(calls) = 2 /\ ~Passed(calls, 1) /\ Passed(calls, 2)
    /\ calls[1].out.kind = "doc"
    /\ website_content["products"].title = Url(Site, "/services")
    /\ "about" \in DOMAIN website_content
    /\ website_content["about"].title = Url(Site, "/company")

\* every candidate whose fetch raised is followed by the next candidate of the list
RaisesSkipped(paths, log) ==
    \A i \in 1..Len(log) :
        (log[i].out.kind = "raise" /\ i < Len(paths)) =>
            /\ Len(log) > i
            /\ log[i + 1].arg = Url(Site, paths[i + 1])

\* C3: a candidate whose fetch or parse raises is skipped and the next one is
\* tried; the error leaves neither the resolution nor the Website step, which
\* an exception leaves only from the main page.
C3_CandidateFailureIsSkipped ==
    /\ AboutResolved => RaisesSkipped(AboutPaths, calls) /\ error = "none"
    /\ ProductsResolved => RaisesSkipped(ProductPaths, calls) /\ error = "none"
    /\ (pc = "raised" /\ error = "website") =>
           /\ Len(calls) = 1
           /\ calls[1].arg = Url(Site, "")
           /\ calls[1].out.kind = "raise"

C3_Witness ==
    /\ ProductsResolved
    /\ Len(calls) = 3
    /\ calls[1].out.kind = "raise" /\ calls[2].out.kind = "raise"
    /\ Passed(calls, 3)
    /\ "products" \in DOMAIN website_content
    /\ "about" \notin DOMAIN website_content

\* the fetched candidate i of the log is the one stored under `section`
Accepted(section, log, i) ==
    /\ section \in DOMAIN website_content
    /\ website_content[section] = WebSection(log[i].arg, log[i].out.text)

AcceptedIff(section, log, bar) ==
    \A i \in 1..Len(log) :
        log[i].out.kind = "doc" =>
            (Accepted(section, log, i) <=> TextLen(log[i].out.text) >= bar)

StoredAtLeast(bar) ==
    \A s \in {"about", "products"} :
        s \in DOMAIN website_content => TextLen(website_content[s].text) >= bar

\* C4 (as claimed): a fetched candidate is accepted if and only if its text has
\* at least 100 characters.
C4_AcceptedFrom100 ==
    /\ AboutResolved => AcceptedIff("about", calls, 100)
    /\ ProductsResolved => AcceptedIff("products", calls, 100)
    /\ StoredAtLeast(100)

\* C4 (amended): a fetched candidate is accepted if and only if its text has
\* more than 100 characters, so every "about" or "products" section of the
\* record has at least 101.
C4_AcceptedFrom101 ==
    /\ AboutResolved => AcceptedIff("about", calls, 101)
    /\ ProductsResolved => AcceptedIff("products", calls, 101)
    /\ StoredAtLeast(101)

C4_Witness ==
    /\ AboutResolved
    /\ Len(calls) = 3
    /\ TextLen(calls[1].out.text) = 99 /\ calls[1].out.kind = "doc"
    /\ TextLen(calls[2].out.text) = 100 /\ calls[2].out.kind = "doc"
    /\ TextLen(calls[3].out.text) = 101 /\ Accepted("about", calls, 3)

\* every about-page candidate fetched failed or gave fewer than 100 characters
AboutAllShort ==
    /\ AboutResolved
    /\ \A i \in 1..Len(calls) :
          calls[i].out.kind = "raise" \/ TextLen(calls[i].out.text) < 100

\* C5: when the main page resolved and every about-page candidate failed or
\* was shorter than 100 characters, all four were tried, the record has no
\* "about" key, the products candidates are tried next and the Website step
\* returns true.
C5_ExhaustedListIsNotAFailure ==
    [][ AboutAllShort =>
          /\ "main" \in DOMAIN website_content
          /\ Len(calls) = Len(AboutPaths)
          /\ "about" \notin DOMAIN website_content
          /\ "about" \notin DOMAIN website_content'
          /\ calls' # <<>> /\ calls'[1].arg = Url(Site, "/products")
          /\ pc' = "keywords"
          /\ "website" \in DOMAIN status' /\ status'["website"] = TRUE ]_vars

C5_Witness ==
    /\ ProductsResolved
    /\ "main" \in DOMAIN website_content
    /\ "about" \notin DOMAIN website_content
    /\ "products" \in DOMAIN website_content

-----------------------------------------------------------------------------
SearchStored == pc = "news" /\ calls[1].out.kind = "items"

\* the places of the hits of the response whose display domain overlaps the name
MatchingHits(items) ==
    { i \in 1..Len(items) : DomainMatches(items[i].displayLink) }

FirstOf(S) == CHOOSE i \in S : \A j \in S : i <= j

\* C6 (as claimed): after the Search step the official website is the link of
\* the first hit, in list order, whose display domain and the company name
\* overlap; a later matching hit never replaces it; with no such hit the field
\* stays unset.
C6_FirstMatchingHitWins ==
    SearchStored =>
        LET items == calls[1].out.items
        IN  IF MatchingHits(items) = {}
            THEN official_website = NoLink
            ELSE official_website = items[FirstOf(MatchingHits(items))].link

\* C9 (as claimed): when the search call of find_competitors fails, by a
\* non-success response or by an exception, competitors is the empty sequence
\* and no error leaves the Competitors step.
C9_SearchFailureDegrades ==
    ( /\ trace # <<>> /\ trace[Len(trace)] = "competitors"
      /\ calls[1].out.kind \in {"raise", "non200"} )
    => /\ competitors = <<>>
       /\ error = "none"
       /\ pc = "save"

CompetitorsSearched ==
    /\ trace # <<>> /\ trace[Len(trace)] = "competitors"
    /\ pc \in {"save", "raised"}

\* C10 (as claimed): with no industry keyword the query is built from the
\* company name only and nothing follows the name's part of the template; with
\* k >= 1 keywords it carries the first min(k, 3) of them.
C10_EmptyListLeavesNoSuffix ==
    CompetitorsSearched =>
        /\ Len(calls) = 1 /\ calls[1].op = "webSearch"
        /\ industry_keywords = <<>> =>
               calls[1].arg = company_name \o S_competitors_in
        /\ \A i \in 1..Len(industry_keywords) :
               i <= 3 => IsSubstring(industry_keywords[i], calls[1].arg)

Quoted(word) == <<"'">> \o word \o <<"'">>

\* C10 (amended): find_competitors never raises while it builds the query and
\* issues one search; the query is the company name, " competitors in " and
\* the rendering of the list of the first min(k, 3) keywords: "[]" when there
\* is none, else every one of them in quotes and no keyword after the third.
C10_QueryRendersKeywordList ==
    CompetitorsSearched =>
        LET q == calls[1].arg
            k == Len(industry_keywords)
            prefix == company_name \o S_competitors_in
        IN  /\ Len(calls) = 1 /\ calls[1].op = "webSearch"
            /\ SubSeq(q, 1, Len(prefix)) = prefix
            /\ q[Len(prefix) + 1] = "[" /\ q[Len(q)] = "]"
            /\ k = 0 => q = prefix \o <<"[", "]">>
            /\ \A i \in 1..k :
                   IF i <= 3
                   THEN IsSubstring(Quoted(industry_keywords[i]), q)
                   ELSE ~IsSubstring(industry_keywords[i], q)
            /\ Len(q) = Len(prefix) + 2
                        + SumLen(Take(industry_keywords, 3))
                        + 2 * Min(k, 3)
                        + 2 * (IF k = 0 THEN 0 ELSE Min(k, 3) - 1)

C10_Witness ==
    /\ CompetitorsSearched
    /\ Len(industry_keywords) = 4
    /\ IsSubstring(Quoted(industry_keywords[3]), calls[1].arg)

-----------------------------------------------------------------------------
Called(platform) == \E i \in 1..Len(scalls) : scalls[i].platform = platform
PlatformSet == Range(Platforms)

\* C7 (as claimed): when the Twitter extractor fails, its result is recorded
\* as failed, no error leaves collect_all_social_data, every other platform
\* with a handle is attempted and the social record is written once.
C7_TwitterFailureIsIsolated ==
    ( /\ spc \in {"done", "raised"}
      /\ Called("twitter") /\ sstatus["twitter"] = FALSE )
    => /\ spc = "done" /\ serror = "none"
       /\ \A p \in PlatformSet : HandleGiven(handles[p]) => Called(p)
       /\ ssaved = 1

\* no handle was supplied for the platform: None, or the empty string
Unsupplied(p) == handles[p].none \/ handles[p].s = <<>>

\* C8 (as claimed): a platform without a handle is not fetched and its result
\* is a value distinct from the one recorded for a failed fetch.
C8_NotAttemptedIsDistinct ==
    spc = "done" =>
        \A p \in PlatformSet :
            Unsupplied(p) => ~Called(p) /\ sstatus[p] # FailedResult

\* C8 (amended): a platform without a handle is not fetched and its result is
\* false, the same value an extractor returns for a failed fetch; with no
\* handle at all no extractor is invoked and every platform maps to false.
C8_NotAttemptedIsFalse ==
    spc \notin {"start"} =>
        /\ \A p \in PlatformSet :
               Unsupplied(p) => ~Called(p) /\ sstatus[p] = FALSE
                                /\ sstatus[p] = FailedResult
        /\ (\A p \in PlatformSet : Unsupplied(p)) =>
               scalls = <<>> /\ sstatus = [p \in PlatformSet |-> FALSE]

C8_Witness ==
    /\ spc = "done" /\ ssaved = 1
    /\ \A p \in PlatformSet : handles[p] = NoHandle
    /\ scalls = <<>>

-----------------------------------------------------------------------------
KeywordsExtracted == pc = "competitors" /\ Returned("keywords")

W_none == <<"n","o","n","e">>

\* the non-null content and description values of the stored news
NonNullFields ==
    { v \in { news[i].content : i \in 1..Len(news) }
            \cup { news[i].description : i \in 1..Len(news) } : ~v.none }

\* the word occurs, in any case, in a non-null text of the news
InNonNullText(word) ==
    \E v \in NonNullFields : \E j \in 1..Len(v.words) : Lower(v.words[j]) = word

\* C11: with content and description null in any positions the Keywords step
\* returns without raising, and every keyword, the token "none" included, is
\* a word of a non-null text: a null never introduces one.
C11_NullIntroducesNoToken ==
    KeywordsExtracted =>
        /\ error = "none" /\ status["keywords"] = TRUE
        /\ \A i \in 1..Len(industry_keywords) : InNonNullText(industry_keywords[i])
        /\ W_none \in Range(industry_keywords) => InNonNullText(W_none)

C11_Witness ==
    /\ KeywordsExtracted
    /\ Len(news) = 2
    /\ news[1].content = None /\ ~news[1].description.none
    /\ news[2].description = None /\ ~news[2].content.none
    /\ industry_keywords # <<>>
    /\ W_none \notin Range(industry_keywords)

Reverse(seq) == [i \in 1..Len(seq) |-> seq[Len(seq) + 1 - i]]

\* some frequency separates exactly the n most frequent words from the rest,
\* or there are no more than n words
NoTieAtCutoff(freq, n) ==
    \/ Cardinality(DOMAIN freq) <= n
    \/ \E w \in DOMAIN freq :
          Cardinality({ x \in DOMAIN freq : freq[x] >= freq[w] }) = n

\* C12 (as claimed): the texts taken in the opposite order give the same set
\* of top-50 keywords, whatever the number of words and the ties.
C12_SameSetInEitherOrder ==
    KeywordsExtracted =>
        Range(industry_keywords)
            = Range(IndustryKeywords(website_content, Reverse(news)))

\* C12 (amended): the frequency of every word is the same in either order,
\* and the set of top-50 keywords is the same whenever no tie in frequency
\* spans the cut after the 50th word (in particular when no more than 50
\* distinct words survive).
C12_SameSetUnlessTieAtCutoff ==
    KeywordsExtracted =>
        LET there == CountedWords(website_content, news)
            back == CountedWords(website_content, Reverse(news))
        IN  /\ WordFreq(there) = WordFreq(back)
            /\ NoTieAtCutoff(WordFreq(there), TopN) =>
                   Range(industry_keywords)
                       = Range(IndustryKeywords(website_content, Reverse(news)))

C12_Witness ==
    /\ KeywordsExtracted
    /\ Len(news) = 2 /\ news[1] # news[2]
    /\ Len(industry_keywords) = TopN
    /\ Cardinality(DOMAIN WordFreq(CountedWords(website_content, news))) = TopN + 1
    /\ NoTieAtCutoff(WordFreq(CountedWords(website_content, news)), TopN)

-----------------------------------------------------------------------------
\* the steps of collect_all_company_data in the order of lines 281-285
StepOrder == <<"google_search", "news", "website", "keywords", "competitors">>

\* C13: the steps start in the order Search, News, Website, Keywords,
\* Competitors, each at most once; a step has returned before the next one
\* starts; the record is saved only after Competitors has returned.
C13_StepsRunOnceInOrder ==
    /\ Len(trace) <= Len(StepOrder)
    /\ trace = SubSeq(StepOrder, 1, Len(trace))
    /\ \A i \in 1..(Len(trace) - 1) : Returned(trace[i])
    /\ DOMAIN status \subseteq Range(trace)
    /\ saved => trace = StepOrder /\ Returned("competitors")

C13_Witness ==
    /\ saved /\ pc = "done"
    /\ trace = StepOrder
    /\ \A i \in 1..Len(StepOrder) : Returned(StepOrder[i])

\* the words of the titles and snippets of the stored search hits
SearchHitWords ==
    UNION { Range(LowerWords(search_results[i].title.words))
                \cup Range(LowerWords(search_results[i].snippet.words))
            : i \in 1..Len(search_results) }

\* the words of the stored website sections and news items
OtherSourceWords ==
    Range(SplitWords(NotNone(AllText(website_content, news))))

\* C14 (as claimed): a word that survives the filters and occurs only in the
\* titles and snippets of the stored search hits is counted by the Keywords
\* step and is among the industry keywords.
C14_SearchHitsAreCounted ==
    (Returned("keywords") /\ Len(industry_keywords) < TopN) =>
        \A w \in SearchHitWords :
            (Survives(w) /\ w \notin OtherSourceWords) =>
                w \in Range(industry_keywords)

\* C15: once the Website step has returned, its result is True exactly when
\* the main section is stored; the about and products sections are stored
\* only with the main section; and when Search adopted no website the step
\* returns False, fetches nothing and stores nothing.
C15_WebsiteResultIsMainStored ==
    /\ ("about" \in DOMAIN website_content \/ "products" \in DOMAIN website_content)
           => "main" \in DOMAIN website_content
    /\ Returned("website") =>
        /\ status["website"] <=> "main" \in DOMAIN website_content
        /\ official_website = NoLink => ~status["website"]
        /\ ~status["website"] => website_content = EmptyMap
        /\ (pc = "keywords" /\ ~status["website"]) => calls = <<>>

C15_Witness ==
    /\ pc = "keywords"
    /\ trace = <<"google_search", "news", "website">>
    /\ official_website = NoLink
    /\ Returned("website") /\ status["website"] = FALSE
    /\ website_content = EmptyMap /\ calls = <<>>

====
